---- MODULE Spec2Model ----
(***************************************************************************)
(* DreamAnalyzer (analyze_dreams.py): keyword-based classification of      *)
(* dream-journal entries and the aggregate report built from them.         *)
(*                                                                         *)
(* A text is a sequence of characters; a character is a one-element        *)
(* string.  Accented letters are written with an ASCII name of two         *)
(* symbols ("a~" is a-tilde, "c," is c-cedilla, "e'" is e-acute, "a^" is   *)
(* a-circumflex, ...): each is still ONE character of the text, as in      *)
(* Python's str.  Python dicts are sequences of <<key, value>> pairs in    *)
(* insertion order.  The analysis_date / report timestamps (datetime.now)  *)
(* are not part of the model.                                              *)
(***************************************************************************)
EXTENDS Integers, Sequences, FiniteSets, TLC

VARIABLES pc, dreams_data, idx, total_dreams, types_count, emotions_total,
          avg_positivity, divisions, report, exception, content, analysis

vars == << pc, dreams_data, idx, total_dreams, types_count, emotions_total,
           avg_positivity, divisions, report, exception, content, analysis >>

-----------------------------------------------------------------------------
(* Characters and str methods.                                             *)

UpperCase ==
    << "A", "B", "C", "D", "E", "F", "G", "H", "I", "J", "K", "L", "M", "N", "O", "P", "Q",
       "R", "S", "T", "U", "V", "W", "X", "Y", "Z", "A~", "E'" >>

LowerCase ==
    << "a", "b", "c", "d", "e", "f", "g", "h", "i", "j", "k", "l", "m", "n", "o", "p", "q",
       "r", "s", "t", "u", "v", "w", "x", "y", "z", "a~", "e'" >>

AccentedLower == {"a~", "a'", "a^", "e'", "e^", "i'", "o'", "c,"}

Digits == {"0", "1", "2", "3", "4", "5", "6", "7", "8", "9"}

\* str.isspace(): the characters str.split() separates on
Whitespace == {" ", "\t", "\n"}

\* the characters the pattern \w matches (letters, digits, underscore)
WordChars ==
    {UpperCase[i] : i \in DOMAIN UpperCase} \cup {LowerCase[i] : i \in DOMAIN LowerCase}
        \cup AccentedLower \cup Digits \cup {"_"}

\* str.lower() on one character
LowerChar(c) ==
    IF \E i \in DOMAIN UpperCase : UpperCase[i] = c
    THEN LowerCase[CHOOSE i \in DOMAIN UpperCase : UpperCase[i] = c]
    ELSE c

\* str.lower()
Lower(s) == [i \in DOMAIN s |-> LowerChar(s[i])]

\* `keyword in content`: keyword occurs as a contiguous substring
Contains(keyword, s) ==
    \E i \in 1..(Len(s) - Len(keyword) + 1) :
        \A j \in 1..Len(keyword) : s[i + j - 1] = keyword[j]

\* len(content.split(' ')) in place of len(content.split()): one more than
\* the number of separators, so 1 for the empty text
SplitCount_separators(s) == 1 + Cardinality({i \in DOMAIN s : s[i] \in Whitespace})

\* len(content.split()): the number of maximal runs of non-whitespace
SplitCount(s) ==
    Cardinality({i \in DOMAIN s :
                    /\ s[i] \notin Whitespace
                    /\ (i = 1 \/ s[i - 1] \in Whitespace)})

RECURSIVE FindWordsFrom(_, _, _)
\* re.findall(r'\b\w+\b', s) scanning from position i, cur the run being read
FindWordsFrom(s, i, cur) ==
    IF i > Len(s)
    THEN IF cur = << >> THEN << >> ELSE << cur >>
    ELSE IF s[i] \in WordChars
         THEN FindWordsFrom(s, i + 1, Append(cur, s[i]))
         ELSE IF cur = << >>
              THEN FindWordsFrom(s, i + 1, << >>)
              ELSE << cur >> \o FindWordsFrom(s, i + 1, << >>)

\* re.findall(r'\b\w+\b', content): the maximal runs of word characters
FindWords(s) == FindWordsFrom(s, 1, << >>)

\* dict.get(key, default) on a dict held as a sequence of <<key, value>> pairs
DictGet(d, key, default) ==
    IF \E i \in DOMAIN d : d[i][1] = key
    THEN d[CHOOSE i \in DOMAIN d : d[i][1] = key][2]
    ELSE default

\* d[key] = value: an existing key keeps its place, a new key goes last
DictSet(d, key, value) ==
    IF \E i \in DOMAIN d : d[i][1] = key
    THEN [i \in DOMAIN d |-> IF d[i][1] = key THEN << key, value >> ELSE d[i]]
    ELSE Append(d, << key, value >>)

RECURSIVE SortedByValueDesc(_)
\* sorted(d.items(), key=lambda x: x[1], reverse=True): stable, so items of
\* equal value keep their order.  Insertion sort: the last item goes after
\* every item of the sorted rest whose value is >= its own.
SortedByValueDesc(items) ==
    IF items = << >>
    THEN << >>
    ELSE LET n == Len(items)
             last == items[n]
             rest == SortedByValueDesc(SubSeq(items, 1, n - 1))
             k == Cardinality({i \in DOMAIN rest : rest[i][2] >= last[2]})
         IN SubSeq(rest, 1, k) \o << last >> \o SubSeq(rest, k + 1, Len(rest))

\* seq[:n]
Take(s, n) == SubSeq(s, 1, IF Len(s) < n THEN Len(s) ELSE n)

\* round(num / den) to the nearest integer, ties to even: what the format
\* spec .1f does to a float that is exactly representable
RoundHalfEven(num, den) ==
    LET q == num \div den
        r == num % den
    IN IF 2 * r < den THEN q
       ELSE IF 2 * r > den THEN q + 1
       ELSE IF q % 2 = 0 THEN q ELSE q + 1

-----------------------------------------------------------------------------
(* DreamAnalyzer.__init__: the lexicons.                                   *)

\* self.emotions['positivo']
emotions_positivo ==
    << <<"f", "e", "l", "i", "z">>,
       <<"a", "l", "e", "g", "r", "e">>,
       <<"e", "s", "p", "e", "r", "a", "n", "c,", "a">>,
       <<"a", "m", "o", "r">>,
       <<"p", "a", "z">>,
       <<"l", "u", "z">>,
       <<"v", "o", "a", "r">>,
       <<"l", "i", "b", "e", "r", "d", "a", "d", "e">> >>

\* self.emotions['nostalgico']
emotions_nostalgico ==
    << <<"p", "a", "s", "s", "a", "d", "o">>,
       <<"i", "n", "f", "a^", "n", "c", "i", "a">>,
       <<"m", "e", "m", "o'", "r", "i", "a">>,
       <<"s", "a", "u", "d", "a", "d", "e">>,
       <<"t", "e", "m", "p", "o">>,
       <<"a", "n", "t", "i", "g", "o">> >>

\* self.emotions['misterioso']
emotions_misterioso ==
    << <<"e", "s", "c", "u", "r", "o">>,
       <<"s", "o", "m", "b", "r", "a">>,
       <<"d", "e", "s", "c", "o", "n", "h", "e", "c", "i", "d", "o">>,
       <<"e", "s", "t", "r", "a", "n", "h", "o">>,
       <<"m", "a'", "g", "i", "c", "o">>,
       <<"s", "u", "r", "r", "e", "a", "l">> >>

\* self.emotions['ansioso']
emotions_ansioso ==
    << <<"c", "o", "r", "r", "e", "r">>,
       <<"p", "e", "r", "s", "e", "g", "u", "i", "r">>,
       <<"p", "e", "r", "d", "e", "r">>,
       <<"c", "a", "i", "r">>,
       <<"m", "e", "d", "o">>,
       <<"p", "r", "e", "s", "s", "a">>,
       <<"f", "u", "g", "i", "r">> >>

future_keywords ==
    << <<"f", "u", "t", "u", "r", "o">>,
       <<"a", "m", "a", "n", "h", "a~">>,
       <<"p", "r", "o'", "x", "i", "m", "o">>,
       <<"e", "s", "p", "e", "r", "o">>,
       <<"q", "u", "e", "r", "o">>,
       <<"d", "e", "s", "e", "j", "o">>,
       <<"p", "l", "a", "n", "e", "j", "o">> >>

night_keywords ==
    << <<"d", "o", "r", "m", "i", "r">>,
       <<"s", "o", "n", "h", "e", "i">>,
       <<"p", "e", "s", "a", "d", "e", "l", "o">>,
       <<"a", "c", "o", "r", "d", "e", "i">>,
       <<"n", "o", "i", "t", "e">>,
       <<"c", "a", "m", "a">> >>

negative_indicators ==
    << <<"n", "a~", "o">>,
       <<"n", "u", "n", "c", "a">>,
       <<"i", "m", "p", "o", "s", "s", "i'", "v", "e", "l">>,
       <<"d", "i", "f", "i'", "c", "i", "l">>,
       <<"p", "r", "o", "b", "l", "e", "m", "a">>,
       <<"m", "e", "d", "o">> >>

\* self.emotions: category -> keywords, in the dict's order
emotions ==
    << << "positivo", emotions_positivo >>,
       << "nostalgico", emotions_nostalgico >>,
       << "misterioso", emotions_misterioso >>,
       << "ansioso", emotions_ansioso >> >>

-----------------------------------------------------------------------------
(* The analysis functions.                                                 *)

\* sum(1 for keyword in keywords if keyword in content)
CountHits(keywords, s) == Len(SelectSeq(keywords, LAMBDA keyword : Contains(keyword, s)))

\* detect_dream_type with >= in place of >: a tie is classified 'futuro'
detect_dream_type_ties_future(s) ==
    LET future_count == CountHits(future_keywords, s)
        night_count == CountHits(night_keywords, s)
    IN IF future_count >= night_count THEN "futuro"
       ELSE IF night_count > future_count THEN "noturno"
       ELSE "indefinido"

detect_dream_type(s) ==
    LET future_count == CountHits(future_keywords, s)
        night_count == CountHits(night_keywords, s)
    IN IF future_count > night_count THEN "futuro"
       ELSE IF night_count > future_count THEN "noturno"
       ELSE "indefinido"

RECURSIVE EmotionScores(_, _)
\* the loop of analyze_emotions over the first n categories
EmotionScores(s, n) ==
    IF n = 0
    THEN << >>
    ELSE LET emotion_scores == EmotionScores(s, n - 1)
             score == CountHits(emotions[n][2], s)
         IN IF score > 0
            THEN DictSet(emotion_scores, emotions[n][1], score)
            ELSE emotion_scores

RECURSIVE EmotionScoresAll(_, _)
\* analyze_emotions without `if score > 0`: every category is recorded
EmotionScoresAll(s, n) ==
    IF n = 0
    THEN << >>
    ELSE DictSet(EmotionScoresAll(s, n - 1), emotions[n][1], CountHits(emotions[n][2], s))

analyze_emotions_keeps_zero(s) == EmotionScoresAll(s, Len(emotions))

analyze_emotions(s) == EmotionScores(s, Len(emotions))

RECURSIVE WordFreq(_)
\* the counting loop of extract_keywords
WordFreq(keywords) ==
    IF keywords = << >>
    THEN << >>
    ELSE LET n == Len(keywords)
             word_freq == WordFreq(SubSeq(keywords, 1, n - 1))
             word == keywords[n]
         IN DictSet(word_freq, word, DictGet(word_freq, word, 0) + 1)

\* extract_keywords without the sort: the first 5 in insertion order
extract_keywords_unsorted(s) ==
    LET words == FindWords(s)
        keywords == SelectSeq(words, LAMBDA word : Len(word) > 4)
    IN Take(WordFreq(keywords), 5)

extract_keywords(s) ==
    LET words == FindWords(s)
        keywords == SelectSeq(words, LAMBDA word : Len(word) > 4)
    IN Take(SortedByValueDesc(WordFreq(keywords)), 5)

\* calculate_positivity without min(100, ...)
calculate_positivity_uncapped(s) ==
    LET positive_words == DictGet(emotions, "positivo", << >>)
        positive_count == CountHits(positive_words, s)
        negative_count == CountHits(negative_indicators, s)
        total_words == SplitCount(s)
        score == 50 + (positive_count * 10) - (negative_count * 5)
    IN IF total_words = 0 THEN 50
       ELSE IF score > 0 THEN score ELSE 0

calculate_positivity(s) ==
    LET positive_words == DictGet(emotions, "positivo", << >>)
        positive_count == CountHits(positive_words, s)
        negative_count == CountHits(negative_indicators, s)
        total_words == SplitCount(s)
        score == 50 + (positive_count * 10) - (negative_count * 5)
        capped == IF score < 100 THEN score ELSE 100
    IN IF total_words = 0 THEN 50
       ELSE IF capped > 0 THEN capped ELSE 0

-----------------------------------------------------------------------------
(* Python values a 'content' field can hold, and the outcome of a call.    *)

PyStr(s) == [py |-> "str", val |-> s]

PyNone == [py |-> "NoneType"]

PyInt(n) == [py |-> "int", val |-> n]

Return(v) == [raised |-> FALSE, value |-> v]

Raise(e) == [raised |-> TRUE, exception |-> e]

\* analyze_dream_content(content): content.lower() raises AttributeError on
\* a value that is not a str, before anything else is computed
analyze_dream_content(c) ==
    IF c.py = "str"
    THEN LET content_lower == Lower(c.val)
         IN Return([type |-> detect_dream_type(content_lower),
                    emotions |-> analyze_emotions(content_lower),
                    keywords |-> extract_keywords(content_lower),
                    positivity_score |-> calculate_positivity(content_lower),
                    word_count |-> SplitCount(c.val)])
    ELSE Raise("AttributeError")

\* dream.get('content', '')
GetContent(dream) ==
    IF "content" \in DOMAIN dream THEN dream.content ELSE PyStr(<< >>)

\* str.title() on the labels the report prints
Title(label) ==
    CASE label = "futuro" -> "Futuro"
      [] label = "noturno" -> "Noturno"
      [] label = "indefinido" -> "Indefinido"
      [] label = "positivo" -> "Positivo"
      [] label = "nostalgico" -> "Nostalgico"
      [] label = "misterioso" -> "Misterioso"
      [] label = "ansioso" -> "Ansioso"

\* types_count[dream_type] = 1 in place of the increment
CountType_overwrite(counts, dream_type) == DictSet(counts, dream_type, 1)

\* types_count[dream_type] = types_count.get(dream_type, 0) + 1
CountType(counts, dream_type) ==
    DictSet(counts, dream_type, DictGet(counts, dream_type, 0) + 1)

RECURSIVE AddEmotions(_, _)
\* for emotion, score in analysis['emotions'].items():
\*     emotions_total[emotion] = emotions_total.get(emotion, 0) + score
AddEmotions(totals, items) ==
    IF items = << >>
    THEN totals
    ELSE LET n == Len(items)
             t == AddEmotions(totals, SubSeq(items, 1, n - 1))
         IN DictSet(t, items[n][1], DictGet(t, items[n][1], 0) + items[n][2])

\* the report line of one type: count / total_dreams * 100 printed with .1f,
\* held in tenths of a percent
TypeLine(item, total) ==
    [label |-> Title(item[1]), count |-> item[2],
     percentage |-> RoundHalfEven(item[2] * 1000, total)]

EmotionLine(item) == [label |-> Title(item[1]), total_score |-> item[2]]

EmptyMessage == [kind |-> "message", text |-> "Nenhum sonho para analisar."]

NoReport == [kind |-> "none"]

NoAnalysis == [type |-> "none"]

-----------------------------------------------------------------------------
(* Inputs.                                                                 *)

\* sample_dreams[0]['content']: "Sonhei que estava voando sobre uma cidade do futuro
\* com carros voadores e pr(e')dios verdes"
SampleContent1 ==
    << "S", "o", "n", "h", "e", "i", " ", "q", "u", "e", " ", "e", "s", "t", "a", "v", "a", " ",
       "v", "o", "a", "n", "d", "o", " ", "s", "o", "b", "r", "e", " ", "u", "m", "a", " ", "c",
       "i", "d", "a", "d", "e", " ", "d", "o", " ", "f", "u", "t", "u", "r", "o", " ", "c", "o",
       "m", " ", "c", "a", "r", "r", "o", "s", " ", "v", "o", "a", "d", "o", "r", "e", "s", " ",
       "e", " ", "p", "r", "e'", "d", "i", "o", "s", " ", "v", "e", "r", "d", "e", "s" >>

\* sample_dreams[1]['content']: "Tive um pesadelo onde estava correndo de algo escuro
\* e n(a~)o conseguia encontrar a sa(i')da"
SampleContent2 ==
    << "T", "i", "v", "e", " ", "u", "m", " ", "p", "e", "s", "a", "d", "e", "l", "o", " ", "o",
       "n", "d", "e", " ", "e", "s", "t", "a", "v", "a", " ", "c", "o", "r", "r", "e", "n", "d",
       "o", " ", "d", "e", " ", "a", "l", "g", "o", " ", "e", "s", "c", "u", "r", "o", " ", "e",
       " ", "n", "a~", "o", " ", "c", "o", "n", "s", "e", "g", "u", "i", "a", " ", "e", "n", "c",
       "o", "n", "t", "r", "a", "r", " ", "a", " ", "s", "a", "i'", "d", "a" >>

\* sample_dreams[2]['content']: "Imagino um mundo onde todos vivem em paz e harmonia,
\* sem guerras nem fome"
SampleContent3 ==
    << "I", "m", "a", "g", "i", "n", "o", " ", "u", "m", " ", "m", "u", "n", "d", "o", " ", "o",
       "n", "d", "e", " ", "t", "o", "d", "o", "s", " ", "v", "i", "v", "e", "m", " ", "e", "m",
       " ", "p", "a", "z", " ", "e", " ", "h", "a", "r", "m", "o", "n", "i", "a", ",", " ", "s",
       "e", "m", " ", "g", "u", "e", "r", "r", "a", "s", " ", "n", "e", "m", " ", "f", "o", "m",
       "e" >>

\* "Sonhei que estava voando sobre uma cidade do futuro"
ExampleContent ==
    << "S", "o", "n", "h", "e", "i", " ", "q", "u", "e", " ", "e", "s", "t", "a", "v", "a", " ",
       "v", "o", "a", "n", "d", "o", " ", "s", "o", "b", "r", "e", " ", "u", "m", "a", " ", "c",
       "i", "d", "a", "d", "e", " ", "d", "o", " ", "f", "u", "t", "u", "r", "o" >>

\* "Futuro ": one future keyword, capitalised
Frag1 ==
    << "F", "u", "t", "u", "r", "o", " " >>

\* "camarada ": the night keyword 'cama' inside a longer word
Frag2 ==
    << "c", "a", "m", "a", "r", "a", "d", "a", " " >>

\* "Sonhei, pesadelo ": two night keywords, punctuation
Frag3 ==
    << "S", "o", "n", "h", "e", "i", ",", " ", "p", "e", "s", "a", "d", "e", "l", "o", " " >>

\* "feliz alegre amor paz luz voar ": six 'positivo' keywords
Frag4 ==
    << "f", "e", "l", "i", "z", " ", "a", "l", "e", "g", "r", "e", " ", "a", "m", "o", "r", " ",
       "p", "a", "z", " ", "l", "u", "z", " ", "v", "o", "a", "r", " " >>

\* "n(a~)o nunca medo ": three negative indicators, one 'ansioso' keyword
Frag5 ==
    << "n", "a~", "o", " ", "n", "u", "n", "c", "a", " ", "m", "e", "d", "o", " " >>

\* "cidade cidade carros ": a repeated long token
Frag6 ==
    << "c", "i", "d", "a", "d", "e", " ", "c", "i", "d", "a", "d", "e", " ", "c", "a", "r", "r",
       "o", "s", " " >>

\* a space and a tab: whitespace only
Frag7 ==
    << " ", "\t" >>

\* "escuro saudade tempo ": 'misterioso' and 'nostalgico' keywords
Frag8 ==
    << "e", "s", "c", "u", "r", "o", " ", "s", "a", "u", "d", "a", "d", "e", " ", "t", "e", "m",
       "p", "o", " " >>

\* "futuro"
ShortFuture ==
    << "f", "u", "t", "u", "r", "o" >>

\* "paz e amor"
ShortPeace ==
    << "p", "a", "z", " ", "e", " ", "a", "m", "o", "r" >>

\* sample_dreams of main()
sample_dreams ==
    << [content |-> PyStr(SampleContent1), type |-> "futuro", date |-> "2025-01-10"],
       [content |-> PyStr(SampleContent2), type |-> "noturno", date |-> "2025-01-09"],
       [content |-> PyStr(SampleContent3), type |-> "futuro", date |-> "2025-01-08"] >>

\* an entry with no 'content' field, and entries whose content is not a str
NoContentDream == [date |-> "2025-01-07"]

NoneDream == [content |-> PyNone, date |-> "2025-01-06"]

IntDream == [content |-> PyInt(5), date |-> "2025-01-05"]

Dreams ==
    {sample_dreams[i] : i \in DOMAIN sample_dreams}
        \cup {NoContentDream, NoneDream, IntDream}
        \cup {[content |-> PyStr(s)] : s \in {ShortFuture, ShortPeace}}

\* the longest dreams_data
MaxDreams == 3

\* the fragments a text is put together from
Fragments == {Frag1, Frag2, Frag3, Frag4, Frag5, Frag6, Frag7, Frag8}

\* the most fragments in a text
MaxFrags == 3

RECURSIVE Concat(_)
Concat(fs) == IF fs = << >> THEN << >> ELSE Head(fs) \o Concat(Tail(fs))

Texts ==
    {Concat(fs) : fs \in UNION {[1..n -> Fragments] : n \in 0..MaxFrags}}
        \cup {ExampleContent}

Contents == {PyStr(s) : s \in Texts} \cup {PyNone}

-----------------------------------------------------------------------------
(* generate_dream_report(dreams_data), one step per loop iteration.        *)

Init ==
    /\ pc = "call"
    /\ dreams_data \in UNION {[1..n -> Dreams] : n \in 0..MaxDreams}
    /\ idx = 0
    /\ total_dreams = 0
    /\ types_count = << >>
    /\ emotions_total = << >>
    /\ avg_positivity = 0
    /\ divisions = << >>
    /\ report = NoReport
    /\ exception = "none"
    /\ content = PyNone
    /\ analysis = NoAnalysis

\* if not dreams_data: return "Nenhum sonho para analisar."
ReturnEmpty ==
    /\ pc = "call"
    /\ dreams_data = << >>
    /\ report' = EmptyMessage
    /\ pc' = "returned"
    /\ UNCHANGED << dreams_data, idx, total_dreams, types_count, emotions_total,
                    avg_positivity, divisions, exception, content, analysis >>

\* generate_dream_report without its `if not dreams_data` early return
BeginFold_unguarded ==
    /\ pc = "call"
    /\ total_dreams' = Len(dreams_data)
    /\ types_count' = << >>
    /\ emotions_total' = << >>
    /\ avg_positivity' = 0
    /\ idx' = 0
    /\ pc' = "fold"
    /\ UNCHANGED << dreams_data, divisions, report, exception, content, analysis >>

\* total_dreams = len(dreams_data); types_count = {}; emotions_total = {};
\* avg_positivity = 0
BeginFold ==
    /\ pc = "call"
    /\ dreams_data # << >>
    /\ total_dreams' = Len(dreams_data)
    /\ types_count' = << >>
    /\ emotions_total' = << >>
    /\ avg_positivity' = 0
    /\ idx' = 0
    /\ pc' = "fold"
    /\ UNCHANGED << dreams_data, divisions, report, exception, content, analysis >>

\* one iteration of `for dream in dreams_data`
FoldEntry ==
    /\ pc = "fold"
    /\ idx < Len(dreams_data)
    /\ \E c \in {GetContent(dreams_data[idx + 1])} :
       \E outcome \in {analyze_dream_content(c)} :
          /\ content' = c
          /\ IF outcome.raised
             THEN /\ exception' = outcome.exception
                  /\ pc' = "raised"
                  /\ UNCHANGED << idx, types_count, emotions_total, avg_positivity,
                                  analysis >>
             ELSE LET a == outcome.value
                  IN /\ analysis' = a
                     /\ types_count' = CountType(types_count, a.type)
                     /\ emotions_total' = AddEmotions(emotions_total, a.emotions)
                     /\ avg_positivity' = avg_positivity + a.positivity_score
                     /\ idx' = idx + 1
                     /\ UNCHANGED << pc, exception >>
    /\ UNCHANGED << dreams_data, total_dreams, divisions, report >>

\* the divisors of the divisions the rendering performs, in order: the mean
\* (guarded by total_dreams > 0), then one percentage per type
Divisors(types, total) ==
    (IF total > 0 THEN << total >> ELSE << >>) \o [i \in DOMAIN types |-> total]

\* lines 130-154: the mean, the type lines, the sorted emotion lines
Render ==
    /\ pc = "fold"
    /\ idx = Len(dreams_data)
    /\ divisions' = divisions \o Divisors(types_count, total_dreams)
    /\ IF \E i \in DOMAIN Divisors(types_count, total_dreams) :
              Divisors(types_count, total_dreams)[i] = 0
       THEN /\ exception' = "ZeroDivisionError"
            /\ pc' = "raised"
            /\ UNCHANGED << report, avg_positivity >>
       ELSE /\ avg_positivity' =
                   IF total_dreams > 0 THEN << avg_positivity, total_dreams >> ELSE << 0, 1 >>
            /\ report' =
                   [kind |-> "report",
                    total_dreams |-> total_dreams,
                    avg_positivity |->
                        IF total_dreams > 0
                        THEN RoundHalfEven(avg_positivity * 10, total_dreams)
                        ELSE 0,
                    types |-> [i \in DOMAIN types_count |->
                                  TypeLine(types_count[i], total_dreams)],
                    emotions |-> LET sorted == SortedByValueDesc(emotions_total)
                                 IN [i \in DOMAIN sorted |-> EmotionLine(sorted[i])]]
            /\ pc' = "returned"
            /\ UNCHANGED exception
    /\ UNCHANGED << dreams_data, idx, total_dreams, types_count, emotions_total,
                    content, analysis >>

Next == ReturnEmpty \/ BeginFold \/ FoldEntry \/ Render

Spec == Init /\ [][Next]_vars

-----------------------------------------------------------------------------
(* analyze_dream_content(content) on its own.                              *)

InitAnalyze ==
    /\ pc = "analyze"
    /\ content \in Contents
    /\ dreams_data = << >>
    /\ idx = 0
    /\ total_dreams = 0
    /\ types_count = << >>
    /\ emotions_total = << >>
    /\ avg_positivity = 0
    /\ divisions = << >>
    /\ report = NoReport
    /\ exception = "none"
    /\ analysis = NoAnalysis

AnalyzeContent ==
    /\ pc = "analyze"
    /\ \E outcome \in {analyze_dream_content(content)} :
          IF outcome.raised
          THEN /\ exception' = outcome.exception
               /\ pc' = "raised"
               /\ UNCHANGED analysis
          ELSE /\ analysis' = outcome.value
               /\ pc' = "analyzed"
               /\ UNCHANGED exception
    /\ UNCHANGED << dreams_data, idx, total_dreams, types_count, emotions_total,
                    avg_positivity, divisions, report, content >>

NextAnalyze == AnalyzeContent

SpecAnalyze == InitAnalyze /\ [][NextAnalyze]_vars

-----------------------------------------------------------------------------
(* What the properties are stated with: substring occurrence, the set of   *)
(* keywords of a lexicon that occur, and the word tokens of a text as its  *)
(* maximal runs of word characters.                                        *)

Range(seq) == {seq[i] : i \in DOMAIN seq}

Occurs(k, s) == \E i \in 1..(Len(s) - Len(k) + 1) : SubSeq(s, i, i + Len(k) - 1) = k

Hits(keywords, s) == {k \in Range(keywords) : Occurs(k, s)}

OnlyWhitespace(s) == \A i \in DOMAIN s : s[i] \in Whitespace

RunStarts(s) == {i \in DOMAIN s : s[i] \in WordChars /\ (i = 1 \/ s[i - 1] \notin WordChars)}

RunEnd(s, i) ==
    CHOOSE j \in i..Len(s) :
        /\ \A k \in i..j : s[k] \in WordChars
        /\ (j = Len(s) \/ s[j + 1] \notin WordChars)

\* start position -> token, for every token of s
TokenMap(s) == [i \in RunStarts(s) |-> SubSeq(s, i, RunEnd(s, i))]

Occurrences(w, toks) == Cardinality({i \in DOMAIN toks : toks[i] = w})

FirstPos(w, toks) ==
    CHOOSE i \in DOMAIN toks : toks[i] = w /\ \A j \in DOMAIN toks : toks[j] = w => i <= j

LongTokens(toks) == {toks[i] : i \in {j \in DOMAIN toks : Len(toks[j]) > 4}}

Clamp(lo, hi, x) == IF x < lo THEN lo ELSE IF x > hi THEN hi ELSE x

Analyzed == pc = "analyzed" /\ content.py = "str"

-----------------------------------------------------------------------------
(* Properties of analyze_dream_content, under SpecAnalyze.                 *)

\* C1: for "Sonhei que estava voando sobre uma cidade do futuro" the type
\* detection finds exactly one future-indicator hit ("futuro"), no
\* night-indicator hit, and classifies the entry 'futuro'.
C1_ExampleIsFuture ==
    (pc = "analyzed" /\ content = PyStr(ExampleContent)) =>
        /\ Hits(future_keywords, Lower(content.val)) = {<<"f", "u", "t", "u", "r", "o">>}
        /\ Hits(night_keywords, Lower(content.val)) = {}
        /\ analysis.type = "futuro"

\* C4: for every text the type is one of 'futuro' / 'noturno' / 'indefinido'
\* and is decided by F and N alone, the numbers of distinct future and night
\* keywords that occur in the lowercased text: 'futuro' iff F > N, 'noturno'
\* iff N > F, 'indefinido' iff F = N.
C4_TypeByDistinctHits ==
    Analyzed =>
        \A F \in {Cardinality(Hits(future_keywords, Lower(content.val)))} :
        \A N \in {Cardinality(Hits(night_keywords, Lower(content.val)))} :
            /\ analysis.type \in {"futuro", "noturno", "indefinido"}
            /\ analysis.type = "futuro" <=> F > N
            /\ analysis.type = "noturno" <=> N > F
            /\ analysis.type = "indefinido" <=> F = N

\* a text where "futuro" occurs twice and one night keyword once: F = N = 1
C4_Witness ==
    /\ Analyzed
    /\ Cardinality({i \in DOMAIN content.val :
                       i + 5 <= Len(content.val)
                       /\ SubSeq(Lower(content.val), i, i + 5) = <<"f", "u", "t", "u", "r", "o">>}) = 2
    /\ Cardinality(Hits(future_keywords, Lower(content.val))) = 1
    /\ Cardinality(Hits(night_keywords, Lower(content.val))) = 1
    /\ analysis.type = "indefinido"

\* C5: for every text the positivity score is an integer in 0..100: 50 when
\* the text has no word, otherwise 50 + 10*P - 5*Q clamped to 0..100, P and Q
\* the numbers of 'positivo' keywords and of negative indicators that occur
\* in the lowercased text.
C5_PositivityFormula ==
    Analyzed =>
        \A P \in {Cardinality(Hits(emotions_positivo, Lower(content.val)))} :
        \A Q \in {Cardinality(Hits(negative_indicators, Lower(content.val)))} :
            /\ analysis.positivity_score \in 0..100
            /\ OnlyWhitespace(content.val) => analysis.positivity_score = 50
            /\ ~OnlyWhitespace(content.val) =>
                   analysis.positivity_score = Clamp(0, 100, 50 + 10 * P - 5 * Q)

\* a text whose raw score 50 + 10*P - 5*Q is above 100
C5_Witness ==
    /\ Analyzed
    /\ 50 + 10 * Cardinality(Hits(emotions_positivo, Lower(content.val)))
          - 5 * Cardinality(Hits(negative_indicators, Lower(content.val))) > 100
    /\ analysis.positivity_score = 100

\* C6: the keywords are at most 5 (token, frequency) pairs of distinct tokens
\* longer than 4 characters, each with its number of occurrences among the
\* tokens of the lowercased text, in non-increasing frequency; no token of a
\* strictly higher frequency is left out, and among tokens of equal
\* frequency the earlier first appearance comes first and is selected first.
C6_TopFiveKeywords ==
    Analyzed =>
        \A toks \in {TokenMap(Lower(content.val))} :
        \A K \in {analysis.keywords} :
            /\ Len(K) <= 5
            /\ Len(K) = 5 \/ Len(K) = Cardinality(LongTokens(toks))
            /\ \A i \in DOMAIN K :
                   /\ K[i][1] \in LongTokens(toks)
                   /\ Len(K[i][1]) > 4
                   /\ K[i][2] = Occurrences(K[i][1], toks)
            /\ \A i, j \in DOMAIN K :
                   i < j => /\ K[i][1] # K[j][1]
                            /\ K[i][2] >= K[j][2]
                            /\ K[i][2] = K[j][2] =>
                                   FirstPos(K[i][1], toks) < FirstPos(K[j][1], toks)
            /\ \A w \in LongTokens(toks) \ {K[i][1] : i \in DOMAIN K} :
                   \A i \in DOMAIN K :
                       /\ Occurrences(w, toks) <= K[i][2]
                       /\ Occurrences(w, toks) = K[i][2] =>
                              FirstPos(K[i][1], toks) < FirstPos(w, toks)

\* more than 5 distinct long tokens, the most frequent one first although
\* it appears after the second, and a token left out
C6_Witness ==
    /\ Analyzed
    /\ \E toks \in {TokenMap(Lower(content.val))} :
          /\ Cardinality(LongTokens(toks)) > 5
          /\ Len(analysis.keywords) = 5
          /\ analysis.keywords[1][2] = 2
          /\ analysis.keywords[2][2] = 1
          /\ FirstPos(analysis.keywords[1][1], toks) > FirstPos(analysis.keywords[2][1], toks)

\* C7: analyze_dream_content("") raises nothing and returns word_count 0,
\* positivity 50, type 'indefinido', no emotions and no keywords; so does any
\* text made of whitespace only.
C7_EmptyContent ==
    (pc # "analyze" /\ content.py = "str" /\ OnlyWhitespace(content.val)) =>
        /\ pc = "analyzed"
        /\ exception = "none"
        /\ analysis = [type |-> "indefinido", emotions |-> << >>, keywords |-> << >>,
                       positivity_score |-> 50, word_count |-> 0]

\* the empty text has been analyzed
C7_Witness == pc = "analyzed" /\ content = PyStr(<< >>)

-----------------------------------------------------------------------------
(* Properties of generate_dream_report, under Spec.                        *)

RECURSIVE SumSeq(_)
SumSeq(ns) == IF ns = << >> THEN 0 ELSE Head(ns) + SumSeq(Tail(ns))

Abs(x) == IF x < 0 THEN 0 - x ELSE x

Keys(d) == {d[i][1] : i \in DOMAIN d}

\* the text of entry i, once every entry has been analyzed
EntryText(i) == Lower(GetContent(dreams_data[i]).val)

\* the type of every entry, in input order
EntryTypes == [i \in DOMAIN dreams_data |-> detect_dream_type(EntryText(i))]

FirstEntryOfType(types, t) ==
    CHOOSE i \in DOMAIN types : types[i] = t /\ \A j \in DOMAIN types : types[j] = t => i <= j

\* the number of keywords of a category that occur in entry i
EntryEmotionCount(category, i) ==
    Cardinality(Hits(DictGet(emotions, category, << >>), EntryText(i)))

EmotionTotal(category) ==
    SumSeq([i \in DOMAIN dreams_data |-> EntryEmotionCount(category, i)])

Reported == pc = "returned" /\ dreams_data # << >>

\* C2: on the three sample entries of main(), in their order, the fold gives
\* types_count = {'futuro': 2, 'noturno': 1} and the report line of the
\* future type shows 66.7%.
C2_SampleTypes ==
    (pc = "returned" /\ dreams_data = sample_dreams) =>
        /\ Keys(types_count) = {"futuro", "noturno"}
        /\ DictGet(types_count, "futuro", 0) = 2
        /\ DictGet(types_count, "noturno", 0) = 1
        /\ \E i \in DOMAIN report.types :
               report.types[i].label = "Futuro" /\ report.types[i].percentage = 667

\* C3: generate_dream_report never fails on an entry whose content is absent
\* or not a text: such an entry is analyzed as "" (type 'indefinido', no
\* emotions, positivity 50) and the report is still produced.
C3_AbsentOrNonTextIsEmpty ==
    /\ pc # "raised"
    /\ (pc \in {"fold", "returned"} /\ idx > 0) =>
           (("content" \notin DOMAIN dreams_data[idx] \/ dreams_data[idx].content.py # "str") =>
                /\ content = PyStr(<< >>)
                /\ analysis.type = "indefinido"
                /\ analysis.emotions = << >>
                /\ analysis.positivity_score = 50)

\* C8: generate_dream_report never divides by zero: on an empty sequence it
\* returns the fixed message with no analysis, sum or division performed,
\* and otherwise every division has the entry count, at least 1, as divisor.
C8_NoDivisionByZero ==
    /\ exception # "ZeroDivisionError"
    /\ \A i \in DOMAIN divisions : divisions[i] = Len(dreams_data) /\ divisions[i] >= 1
    /\ (dreams_data = << >> /\ pc # "call") =>
           /\ pc = "returned"
           /\ report = EmptyMessage
           /\ divisions = << >>
           /\ idx = 0
           /\ analysis = NoAnalysis
           /\ avg_positivity = 0
    /\ Reported => Len(divisions) = 1 + Len(types_count)

\* the empty sequence has been answered with the fixed message
C8_Witness == pc = "returned" /\ dreams_data = << >> /\ report = EmptyMessage

\* C9: after the fold over a non-empty sequence each entry is counted under
\* exactly one type: the counts sum to the number of entries, every listed
\* type has a count >= 1, the types are listed in first-encountered order,
\* and the printed percentages (count / total * 100, one decimal) sum to 100
\* within the rounding of one decimal per line.
C9_TypeCounts ==
    Reported =>
        \A types \in {EntryTypes} :
            /\ Keys(types_count) = Range(types)
            /\ \A k \in DOMAIN types_count :
                   /\ types_count[k][2] =
                          Cardinality({i \in DOMAIN types : types[i] = types_count[k][1]})
                   /\ types_count[k][2] >= 1
            /\ \A j, k \in DOMAIN types_count :
                   j < k => FirstEntryOfType(types, types_count[j][1])
                                < FirstEntryOfType(types, types_count[k][1])
            /\ SumSeq([k \in DOMAIN types_count |-> types_count[k][2]]) = Len(dreams_data)
            /\ Len(report.types) = Len(types_count)
            /\ \A k \in DOMAIN report.types :
                   /\ report.types[k].label = Title(types_count[k][1])
                   /\ report.types[k].count = types_count[k][2]
                   /\ 2 * Abs(report.types[k].percentage * Len(dreams_data)
                                - 1000 * types_count[k][2]) <= Len(dreams_data)
            /\ 2 * Abs(SumSeq([k \in DOMAIN report.types |-> report.types[k].percentage])
                         - 1000) <= Len(report.types)

\* three types in one report, each printed 33.3%: the sum is 99.9
C9_Witness ==
    /\ Reported
    /\ Len(report.types) = 3
    /\ \A k \in DOMAIN report.types : report.types[k].percentage = 333

\* C10: emotion counts are never zero or negative.  Per entry, a category is
\* in the mapping iff one of its keywords occurs in the lowercased text, with
\* the number of its keywords that occur; in the report, the emotion lines
\* are exactly the categories present in some entry, each with the sum of
\* its per-entry counts (>= 1), in non-increasing order of total.
C10_EmotionCounts ==
    /\ (pc \in {"fold", "returned"} /\ idx > 0) =>
           /\ content.py = "str"
           /\ \A i, j \in DOMAIN analysis.emotions :
                  i # j => analysis.emotions[i][1] # analysis.emotions[j][1]
           /\ \A c \in Keys(emotions) :
                  \A n \in {Cardinality(Hits(DictGet(emotions, c, << >>), Lower(content.val)))} :
                      /\ c \in Keys(analysis.emotions) <=> n > 0
                      /\ c \in Keys(analysis.emotions) =>
                             DictGet(analysis.emotions, c, 0) = n
           /\ \A i \in DOMAIN analysis.emotions :
                  analysis.emotions[i][1] \in Keys(emotions) /\ analysis.emotions[i][2] >= 1
    /\ Reported =>
           /\ {report.emotions[k].label : k \in DOMAIN report.emotions}
                  = {Title(c) : c \in {e \in Keys(emotions) : EmotionTotal(e) > 0}}
           /\ \A k \in DOMAIN report.emotions :
                  /\ report.emotions[k].total_score >= 1
                  /\ \E c \in Keys(emotions) :
                         /\ report.emotions[k].label = Title(c)
                         /\ report.emotions[k].total_score = EmotionTotal(c)
           /\ \A j, k \in DOMAIN report.emotions :
                  j < k => /\ report.emotions[j].label # report.emotions[k].label
                           /\ report.emotions[j].total_score >= report.emotions[k].total_score

\* two categories in the report, the larger total first although it was
\* met second in the fold
C10_Witness ==
    /\ Reported
    /\ Len(report.emotions) >= 2
    /\ report.emotions[1].total_score > report.emotions[2].total_score
    /\ report.emotions[1].label = Title(emotions_total[2][1])
    /\ emotions_total[1][2] < emotions_total[2][2]

====
